---- MODULE Spec2Model ----
(***************************************************************************)
(* The orchestration builder of quorum-tools (package docker): Build(),    *)
(* Destroy(), the image pull under pullMux, the parallel executor          *)
(* doWorkInParallel and the Tessera key generation, as a state machine     *)
(* over one container engine.                                              *)
(*                                                                         *)
(* One builder process runs at a time.  Its main goroutine is at mpc; the  *)
(* goroutines doWorkInParallel launches are at wpc[i].  The engine holds   *)
(* images, containers and networks; it answers every call with success or  *)
(* an error of its own choosing.                                           *)
(*                                                                         *)
(* Specifications: Spec (one Build), SpecDestroy (Destroy), SpecBuildDestroy *)
(* (Build and Destroy), SpecLedger (startQuorums), SpecUnits               *)
(* (startContainers over tx-manager units, Start and Stop) and SpecOld     *)
(* (startContainers of the older builder, builder.go).                     *)
(***************************************************************************)
EXTENDS Integers, Sequences, FiniteSets, TLC

\* ------------------------------------------------------------ bounds
MaxNodes == 2          \* len(qb.Nodes) ranges over 0..MaxNodes
MaxDestroys == 2       \* calls of Destroy() in one behaviour
MaxContainers == 2     \* labeled containers the engine may hold at the start
MaxUnits == 3          \* units given to startContainers on its own

\* ------------------------------------------------------------ names
Name == "b1"                      \* qb.Name, the value of the build's label
OtherLabel == "other"             \* the label value of somebody else's resources
NoLabel == ""                     \* a resource created without labels
TxImage == "tessera"              \* node.TxManager.Image
QuorumImage == "quorum"           \* node.Quorum.Image
Images == {TxImage, QuorumImage}
Nil == [text |-> "nil"]            \* Go's nil error

VARIABLES
  \* the builder process
  mpc,            \* where the main goroutine is
  nodes,          \* len(qb.Nodes)
  tmpDir,         \* qb.tmpDir: "" until Build sets it
  dockerNetwork,  \* qb.dockerNetwork: 0 (nil) or the id of the network Build created
  pullMux,        \* qb.pullMux: the goroutines holding it, none or one
  ret,            \* what the last Build()/Destroy() returned
  \* one doWorkInParallel call
  stage,          \* the caller: "tx", "quorum", "rmContainers", "rmNetworks"
  elements,       \* the elements argument
  wpc,            \* goroutine i's position; "stopped" once the unit's Stop() returned
  werr,           \* what callback(i, el) returned: Nil or a message
  cbCalls,        \* how often callback was invoked for index i
  saw,            \* what ImageList showed unit i: "", "err", "empty", "found"
  pulls,          \* how often unit i invoked ImagePull
  keyCt,          \* the id of unit i's key-generation container, 0 before
  recv,           \* how many results the collector received from goroutine i
  doneCount,
  allErr,
  workRet,        \* what the last doWorkInParallel returned, Running until it does
  \* the engine
  images,         \* image reference -> "absent", "pulling", "present"
  containers,     \* set of [id, label]
  networks,       \* set of [id, label]
  nextId,         \* the next id the engine assigns
  pullCalls,      \* image reference -> the ImagePull calls the engine has received
  \* history
  builds,         \* calls of Build() so far
  destroys,       \* calls of Destroy() so far
  entered,        \* the steps the current Build() has executed
  failed,         \* the step at which the current Build() failed, "" if none
  absentAtBuild,  \* the images that were absent when Build() was called
  unreported,     \* the tx-manager units launched whose result is not yet collected
  identities,     \* the node identities startQuorums has made (bootstrap.NewNode)
  dlog,           \* what the current (or last) Destroy() did
  quiet           \* the last Destroy() returned nil and the engine is unchanged since

procVars == <<mpc, nodes, tmpDir, dockerNetwork, pullMux, ret>>
workVars == <<stage, elements, wpc, werr, cbCalls, saw, pulls, keyCt, recv, doneCount,
              allErr, workRet>>
engineVars == <<images, containers, networks, nextId, pullCalls>>
histVars == <<builds, destroys, entered, failed, absentAtBuild, unreported, identities,
              dlog, quiet>>
vars == <<procVars, workVars, engineVars, histVars>>

\* ------------------------------------------------------------ data
\* qb.commonLabels of NewQuorumBuilder: the one label, whose value is qb.Name.
commonLabels == Name

\* An error message, by the values its format string is filled with.
Msg(text, image, id) == [text |-> text, image |-> image, id |-> id]

\* The error doWorkInParallel returns: "%s: %d/%d\n%s".
AggregateError(title, done, total, msgs) ==
  [title |-> title, done |-> done, total |-> total, msgs |-> msgs]

\* The title doWorkInParallel is called with.
TitleOf(s) ==
  CASE s = "rmContainers" -> "removing containers"
    [] s = "rmNetworks" -> "removing network"
    [] OTHER -> "starting containers"

\* The image a unit of the stage pulls.
ImageOf(s) == IF s = "quorum" THEN QuorumImage ELSE TxImage

\* The ids of a set of resources in increasing order, as a sequence.
RECURSIVE SortedIds(_)
SortedIds(S) ==
  IF S = {} THEN <<>>
  ELSE LET m == CHOOSE x \in S : \A y \in S : x <= y
       IN <<m>> \o SortedIds(S \ {m})

\* The engine's list with the label filter of Destroy.
ListByLabel(resources, label) == {r.id : r \in {x \in resources : x.label = label}}

Indices == 0 .. (Len(elements) - 1)
El(i) == elements[i + 1]
NoWork == [i \in {} |-> 0]

NoRet == [call |-> "", err |-> Nil]
BuildRet(e) == [call |-> "Build", err |-> e]
\* Mutant of DestroyRet: Destroy drops the error of its passes.
DestroyRetNil(e) == [call |-> "Destroy", err |-> Nil]

\* Destroy wraps every error it returns: "destroy: %s".
DestroyRet(e) ==
  [call |-> "Destroy",
   err |-> IF e = Nil THEN Nil ELSE [text |-> "destroy: %s", cause |-> e]]

Running == [text |-> "running"]

\* What a Destroy() call did: the lists it asked for (called), those it got (did,
\* listed, with the engine's contents then: snap), the ids it asked to remove, and
\* the failures it met; and of the call before it, whether it returned nil with the
\* engine unchanged since (afterQuiet) and the ids it asked to remove (before).
NoLog ==
  [afterQuiet |-> FALSE, before |-> {},
   calledListC |-> FALSE, didListC |-> FALSE, snapC |-> {}, listedC |-> {},
   calledListN |-> FALSE, didListN |-> FALSE, snapN |-> {}, listedN |-> {},
   attempted |-> {}, listErr |-> FALSE, hardErr |-> FALSE, notFound |-> FALSE]

\* ------------------------------------------------------------ doWorkInParallel
\* Mutant of SendOn: the goroutine reports on doneChan whatever the callback returned.
SendOnDoneChan(e) == "doneChan"

\* The goroutine body: which channel the result is sent on.
SendOn(e) == IF e # Nil THEN "errChan" ELSE "doneChan"

\* Mutant of LoopDone: the loop is left one result early.
LoopDoneOneShort(errs, done, total) == Len(errs) + done >= total - 1

\* Mutant of LoopDone: the loop is left at the first error.
LoopDoneOnError(errs, done, total) == Len(errs) > 0 \/ Len(errs) + done >= total

\* The collector's exit test: len(allErr)+doneCount >= len(elements).
LoopDone(errs, done, total) == Len(errs) + done >= total

\* What doWorkInParallel returns once the loop is left.
WorkResult(s, errs, done, total) ==
  IF Len(errs) > 0 THEN AggregateError(TitleOf(s), done, total, errs) ELSE Nil

\* The first statement of the callback each caller passes.
FirstPc(s) ==
  CASE s = "rmContainers" -> "ContainerRemove"
    [] s = "rmNetworks" -> "NetworkRemove"
    [] s = "unit" -> "containerFn"
    [] OTHER -> "pullImage"

\* Mutant of StageFailed: the caller goes on whatever the stage returned.
StageFailedNever(e) == FALSE

\* The callers' test of a stage's or a pass's result: err != nil.
StageFailed(e) == e # Nil

\* What the caller does with doWorkInParallel's result e.
\*   Build:   a failed stage returns at once, startQuorums follows startTxManagers
\*   Destroy: a failed pass returns at once, the network pass follows the container pass
AfterWork(s, e) ==
  CASE s = "tx" ->
         IF StageFailed(e)
         THEN mpc' = "idle" /\ ret' = BuildRet(e) /\ failed' = "tx" /\ quiet' = quiet
         ELSE mpc' = "startQuorums" /\ UNCHANGED <<ret, failed, quiet>>
    [] s = "quorum" ->
         /\ mpc' = "idle" /\ ret' = BuildRet(e) /\ quiet' = quiet
         /\ failed' = IF StageFailed(e) THEN "quorum" ELSE failed
    [] s = "rmContainers" ->
         IF StageFailed(e)
         THEN /\ mpc' = "idle" /\ ret' = DestroyRet(e) /\ failed' = failed
              /\ quiet' = (DestroyRet(e).err = Nil)
         ELSE mpc' = "NetworkList" /\ UNCHANGED <<ret, failed, quiet>>
    [] s = "unit" ->
         /\ mpc' = "idle" /\ ret' = [call |-> "startContainers", err |-> e]
         /\ UNCHANGED <<failed, quiet>>
    [] OTHER ->
         /\ mpc' = "idle" /\ ret' = DestroyRet(e) /\ failed' = failed
         /\ quiet' = (DestroyRet(e).err = Nil)

\* Mutant of Launched: a goroutine is launched even when there is no element.
LaunchedOneAnyway(els) == 0 .. (IF Len(els) = 0 THEN 0 ELSE Len(els) - 1)

\* The goroutines the loop over elements launches, one per index.
Launched(els) == 0 .. (Len(els) - 1)

\* doWorkInParallel(title, els, callback) up to the collector's loop.
doWorkInParallel(s, els) ==
  /\ stage' = s
  /\ elements' = els
  /\ doneCount' = 0
  /\ allErr' = <<>>
  /\ werr' = [i \in Launched(els) |-> Nil]
  /\ wpc' = [i \in Launched(els) |-> FirstPc(s)]
  /\ cbCalls' = [i \in Launched(els) |-> 0]
  /\ saw' = [i \in Launched(els) |-> ""]
  /\ pulls' = [i \in Launched(els) |-> 0]
  /\ keyCt' = [i \in Launched(els) |-> 0]
  /\ recv' = [i \in Launched(els) |-> 0]
  /\ unreported' = IF s = "tx" THEN Launched(els) ELSE unreported
  /\ IF Len(els) = 0
     THEN workRet' = Nil /\ AfterWork(s, Nil)
     ELSE workRet' = Running /\ mpc' = "collect" /\ UNCHANGED <<ret, failed, quiet>>

\* The callback of goroutine i returned e: the goroutine sends it.
Returns(i, e) ==
  /\ werr' = [werr EXCEPT ![i] = e]
  /\ wpc' = [wpc EXCEPT ![i] = SendOn(e)]

\* The collector after one receive: the exit test, the return and the caller's next step.
Collected(errs, done) ==
  IF LoopDone(errs, done, Len(elements))
  THEN /\ workRet' = WorkResult(stage, errs, done, Len(elements))
       /\ AfterWork(stage, WorkResult(stage, errs, done, Len(elements)))
  ELSE UNCHANGED <<workRet, mpc, ret, failed, quiet>>

\* case <-doneChan
RecvDone(i) ==
  /\ mpc = "collect"
  /\ wpc[i] = "doneChan"
  /\ wpc' = [wpc EXCEPT ![i] = "exit"]
  /\ recv' = [recv EXCEPT ![i] = @ + 1]
  /\ unreported' = IF stage = "tx" THEN unreported \ {i} ELSE unreported
  /\ doneCount' = doneCount + 1
  /\ allErr' = allErr
  /\ Collected(allErr, doneCount + 1)
  /\ UNCHANGED <<nodes, tmpDir, dockerNetwork, pullMux, stage, elements, werr, cbCalls,
                 saw, pulls, keyCt, engineVars, builds, destroys, entered,
                 absentAtBuild, identities, dlog>>

\* case err := <-errChan
RecvErr(i) ==
  /\ mpc = "collect"
  /\ wpc[i] = "errChan"
  /\ wpc' = [wpc EXCEPT ![i] = "exit"]
  /\ recv' = [recv EXCEPT ![i] = @ + 1]
  /\ unreported' = IF stage = "tx" THEN unreported \ {i} ELSE unreported
  /\ doneCount' = doneCount
  /\ allErr' = Append(allErr, werr[i])
  /\ Collected(Append(allErr, werr[i]), doneCount)
  /\ UNCHANGED <<nodes, tmpDir, dockerNetwork, pullMux, stage, elements, werr, cbCalls,
                 saw, pulls, keyCt, engineVars, builds, destroys, entered,
                 absentAtBuild, identities, dlog>>

\* ------------------------------------------------------------ Build
\* quorumNodesToGeneric(qb.Nodes): the nodes, by index.
quorumNodesToGeneric(n) == [k \in 1 .. n |-> k - 1]

\* NewDockerNetwork: the engine creates a network that carries the given label.
NewDockerNetwork(nets, id, label) == nets \cup {[id |-> id, label |-> label]}

\* Build(): ioutil.TempDir, which sets qb.tmpDir or fails.
Build ==
  /\ mpc = "idle"
  /\ builds = 0
  /\ builds' = 1
  /\ absentAtBuild' = {im \in Images : images[im] = "absent"}
  /\ unreported' = {}
  /\ identities' = 0
  /\ entered' = {"TempDir"}
  /\ \/ /\ tmpDir' = "tmp"
        /\ mpc' = "buildDockerNetwork"
        /\ failed' = ""
        /\ ret' = NoRet
     \/ /\ tmpDir' = tmpDir
        /\ mpc' = "idle"
        /\ failed' = "TempDir"
        /\ ret' = BuildRet(Msg("TempDir", "", 0))
  /\ UNCHANGED <<nodes, dockerNetwork, pullMux, workVars, engineVars, destroys, dlog,
                 quiet>>

\* Build(): qb.buildDockerNetwork().
buildDockerNetwork ==
  /\ mpc = "buildDockerNetwork"
  /\ entered' = entered \cup {"network"}
  /\ \/ /\ networks' = NewDockerNetwork(networks, nextId, commonLabels)
        /\ nextId' = nextId + 1
        /\ dockerNetwork' = nextId
        /\ mpc' = "startTxManagers"
        /\ quiet' = FALSE
        /\ UNCHANGED <<ret, failed>>
     \/ /\ mpc' = "idle"
        /\ failed' = "network"
        /\ ret' = BuildRet(Msg("NewDockerNetwork", "", 0))
        /\ UNCHANGED <<networks, nextId, dockerNetwork, quiet>>
  /\ UNCHANGED <<nodes, tmpDir, pullMux, workVars, images, containers, pullCalls, builds,
                 destroys, absentAtBuild, identities, unreported, dlog>>

\* startContainers(containerFn): doWorkInParallel over the nodes.
startContainers(s) == doWorkInParallel(s, quorumNodesToGeneric(nodes))

\* Build(): qb.startTxManagers(): GetFreeIPAddrs, then startContainers.
startTxManagers ==
  /\ mpc = "startTxManagers"
  /\ \/ /\ entered' = entered \cup {"txLease"}
        /\ startContainers("tx")
     \/ /\ entered' = entered
        /\ mpc' = "idle"
        /\ failed' = "txLease"
        /\ ret' = BuildRet(Msg("GetFreeIPAddrs", "", 0))
        /\ UNCHANGED <<workVars, quiet, unreported>>
  /\ UNCHANGED <<nodes, tmpDir, dockerNetwork, pullMux, engineVars, builds, destroys,
                 absentAtBuild, identities, dlog>>

\* Mutant of LoopOver: the loop over the nodes is left one node early.
LoopOverEarly(made, n) == made >= n - 1

\* startQuorums: for i := 0; i < nodeCount; i++ is over, no NewNode having failed.
LoopOver(made, n) == made = n

\* Build(): qb.startQuorums() up to bootstrap.WritePermissionedNodes:
\* GetFreeIPAddrs, then bootstrap.NewNode for node 0, 1, ... until one fails.
startQuorums ==
  /\ mpc = "startQuorums"
  /\ \/ \E made \in 0 .. nodes :
          /\ entered' = entered \cup {"quorumLease"}
                                \cup (IF made > 0 THEN {"NewNode"} ELSE {})
          /\ identities' = made
          /\ IF LoopOver(made, nodes)
             THEN mpc' = "WritePermissionedNodes" /\ UNCHANGED <<ret, failed>>
             ELSE /\ mpc' = "idle"
                  /\ failed' = "NewNode"
                  /\ ret' = BuildRet(Msg("NewNode", "", 0))
     \/ /\ entered' = entered
        /\ mpc' = "idle"
        /\ failed' = "quorumLease"
        /\ ret' = BuildRet(Msg("GetFreeIPAddrs", "", 0))
        /\ identities' = identities
  /\ UNCHANGED <<nodes, tmpDir, dockerNetwork, pullMux, workVars, engineVars, builds,
                 destroys, absentAtBuild, unreported, dlog, quiet>>

\* startQuorums: bootstrap.WritePermissionedNodes(nodes).
WritePermissionedNodes ==
  /\ mpc = "WritePermissionedNodes"
  /\ \/ /\ entered' = entered \cup {"WritePermissionedNodes"}
        /\ mpc' = "NewGenesis"
        /\ UNCHANGED <<ret, failed>>
     \/ /\ entered' = entered
        /\ mpc' = "idle"
        /\ failed' = "WritePermissionedNodes"
        /\ ret' = BuildRet(Msg("WritePermissionedNodes", "", 0))
  /\ UNCHANGED <<nodes, tmpDir, dockerNetwork, pullMux, workVars, engineVars, builds,
                 destroys, absentAtBuild, identities, unreported, dlog, quiet>>

\* startQuorums: bootstrap.NewGenesis, then startContainers.
NewGenesis ==
  /\ mpc = "NewGenesis"
  /\ \/ /\ entered' = entered \cup {"NewGenesis"}
        /\ startContainers("quorum")
     \/ /\ entered' = entered
        /\ mpc' = "idle"
        /\ failed' = "NewGenesis"
        /\ ret' = BuildRet(Msg("NewGenesis", "", 0))
        /\ UNCHANGED <<workVars, quiet, unreported>>
  /\ UNCHANGED <<nodes, tmpDir, dockerNetwork, pullMux, engineVars, builds, destroys,
                 absentAtBuild, identities, dlog>>

\* ------------------------------------------------------------ pullImage
\* What ImageList shows: an error, or the images matching the reference.
ImageListResult(im, listErr) ==
  IF listErr THEN "err" ELSE IF images[im] = "present" THEN "found" ELSE "empty"

\* Mutant of NeedPull: the image is pulled whatever the list showed.
NeedPullAlways(shown) == TRUE

\* pullImage: len(images) == 0 || err != nil.
NeedPull(shown) == shown = "empty" \/ shown = "err"

\* Mutant of Lock: the lock is granted whoever holds it.
LockAlways(mux) == TRUE

\* qb.pullMux.Lock(): granted when no goroutine holds the lock.
Lock(mux) == mux = {}

\* The callback's next statement after pullImage returned nil.
AfterPull(s) == IF s = "tx" THEN "GenerateKeys" ELSE "NewQuorum"

\* pullImage: qb.pullMux.Lock(), ImageList; with the image listed, the deferred Unlock.
pullImage(i) ==
  /\ wpc[i] = "pullImage"
  /\ Lock(pullMux)
  /\ cbCalls' = [cbCalls EXCEPT ![i] = @ + 1]
  /\ \E listErr \in BOOLEAN :
       LET shown == ImageListResult(ImageOf(stage), listErr) IN
       /\ saw' = [saw EXCEPT ![i] = shown]
       /\ IF NeedPull(shown)
          THEN pullMux' = {i} /\ wpc' = [wpc EXCEPT ![i] = "ImagePull"]
          ELSE pullMux' = {} /\ wpc' = [wpc EXCEPT ![i] = AfterPull(stage)]
  /\ UNCHANGED <<mpc, nodes, tmpDir, dockerNetwork, ret, stage, elements, werr, pulls,
                 keyCt, recv, doneCount, allErr, workRet, engineVars, histVars>>

\* pullImage: ImagePull and the deferred Unlock.  The engine accepts the pull, which
\* it completes later, or refuses it.
ImagePull(i) ==
  /\ wpc[i] = "ImagePull"
  /\ pullMux = {i}
  /\ pullMux' = {}
  /\ pulls' = [pulls EXCEPT ![i] = @ + 1]
  /\ pullCalls' = [pullCalls EXCEPT ![ImageOf(stage)] = @ + 1]
  /\ \/ /\ images' = [images EXCEPT ![ImageOf(stage)] =
                        IF @ = "absent" THEN "pulling" ELSE @]
        /\ wpc' = [wpc EXCEPT ![i] = AfterPull(stage)]
        /\ werr' = werr
     \/ /\ images' = images
        /\ Returns(i, Msg("pullImage: %s - %s", ImageOf(stage), 0))
  /\ UNCHANGED <<mpc, nodes, tmpDir, dockerNetwork, ret, stage, elements, cbCalls, saw,
                 keyCt, recv, doneCount, allErr, workRet, containers, networks, nextId,
                 histVars>>

\* The engine completes a pull it accepted.
EnginePullDone(im) ==
  /\ images[im] = "pulling"
  /\ images' = [images EXCEPT ![im] = "present"]
  /\ UNCHANGED <<procVars, workVars, containers, networks, nextId, pullCalls, histVars>>

\* ------------------------------------------------------------ GenerateKeys
\* NewTesseraTxManager -> GenerateKeys: ioutil.TempDir and ContainerCreate.  The
\* container is created from a Config that sets no labels.
GenerateKeys(i) ==
  /\ wpc[i] = "GenerateKeys"
  /\ \/ /\ Returns(i, Msg("GenerateKeys: can't create tmp dir - %s", "", 0))
        /\ UNCHANGED <<keyCt, containers, nextId, quiet>>
     \/ /\ Returns(i, Msg("GenerateKeys: can't create container - %s", "", 0))
        /\ UNCHANGED <<keyCt, containers, nextId, quiet>>
     \/ /\ containers' = containers \cup {[id |-> nextId, label |-> NoLabel]}
        /\ keyCt' = [keyCt EXCEPT ![i] = nextId]
        /\ nextId' = nextId + 1
        /\ wpc' = [wpc EXCEPT ![i] = "ContainerStart"]
        /\ quiet' = FALSE
        /\ werr' = werr
  /\ UNCHANGED <<procVars, stage, elements, cbCalls, saw, pulls, recv, doneCount, allErr,
                 workRet, images, networks, pullCalls, builds, destroys, entered, failed,
                 absentAtBuild, identities, unreported, dlog>>

\* GenerateKeys: ContainerStart; on an error it returns before the removal is deferred.
ContainerStart(i) ==
  /\ wpc[i] = "ContainerStart"
  /\ \/ wpc' = [wpc EXCEPT ![i] = "ContainerWait"] /\ werr' = werr
     \/ Returns(i, Msg("GenerateKeys: can't start container %s - %s", "", keyCt[i]))
  /\ UNCHANGED <<procVars, stage, elements, cbCalls, saw, pulls, keyCt, recv, doneCount,
                 allErr, workRet, engineVars, histVars>>

\* Mutant of DeferredRemove: the removal takes every container with it.
DeferredRemoveAll(cs, id) == {}

\* defer ContainerRemove(containerId, Force), when the engine carries it out.
DeferredRemove(cs, id) == {c \in cs : c.id # id}

\* GenerateKeys: the select on ContainerWait's error channel receives an error; the
\* deferred ContainerRemove (its own error dropped) runs and the error is returned.
ContainerWaitErr(i) ==
  /\ wpc[i] = "ContainerWait"
  /\ Returns(i, Msg("GenerateKeys: container %s is not running - %s", "", keyCt[i]))
  /\ \/ containers' = DeferredRemove(containers, keyCt[i]) /\ quiet' = FALSE
     \/ UNCHANGED <<containers, quiet>>
  /\ UNCHANGED <<procVars, stage, elements, cbCalls, saw, pulls, keyCt, recv, doneCount,
                 allErr, workRet, images, networks, nextId, pullCalls, builds, destroys,
                 entered, failed, absentAtBuild, identities, unreported, dlog>>

\* GenerateKeys: the container exits and ContainerWait reports no error: nothing is
\* ever sent on the error channel, the only one the select reads.
ContainerWaitExit(i) ==
  /\ wpc[i] = "ContainerWait"
  /\ wpc' = [wpc EXCEPT ![i] = "blocked"]
  /\ UNCHANGED <<procVars, stage, elements, werr, cbCalls, saw, pulls, keyCt, recv,
                 doneCount, allErr, workRet, engineVars, histVars>>

\* ------------------------------------------------------------ ledger-node units
\* The callback of startQuorums: NewQuorum(...) returns a unit or an error.
NewQuorum(i) ==
  /\ wpc[i] = "NewQuorum"
  /\ \/ wpc' = [wpc EXCEPT ![i] = "Start"] /\ werr' = werr
     \/ Returns(i, Msg("NewQuorum", "", 0))
  /\ UNCHANGED <<procVars, stage, elements, cbCalls, saw, pulls, keyCt, recv, doneCount,
                 allErr, workRet, engineVars, histVars>>

\* startContainers: c.Start() of a ledger-node unit, which creates and starts the
\* unit's container, labeled as configured, or fails.
QuorumStart(i) ==
  /\ wpc[i] = "Start"
  /\ stage = "quorum"
  /\ \/ /\ containers' = containers \cup {[id |-> nextId, label |-> commonLabels]}
        /\ nextId' = nextId + 1
        /\ quiet' = FALSE
        /\ Returns(i, Nil)
     \/ /\ Returns(i, Msg("Start", "", 0))
        /\ UNCHANGED <<containers, nextId, quiet>>
  /\ UNCHANGED <<procVars, stage, elements, cbCalls, saw, pulls, keyCt, recv, doneCount,
                 allErr, workRet, images, networks, pullCalls, builds, destroys, entered,
                 failed, absentAtBuild, identities, unreported, dlog>>

\* ------------------------------------------------------------ tx-manager units
\* startContainers(containerFn) called with a containerFn that makes the unit as a
\* value, &TesseraTxManager{&DefaultConfigurable{}}, or fails.
StartUnits ==
  /\ mpc = "startContainers"
  /\ startContainers("unit")
  /\ UNCHANGED <<nodes, tmpDir, dockerNetwork, pullMux, engineVars, builds, destroys,
                 entered, absentAtBuild, identities, dlog>>

\* startContainers: c, err := containerFn(idx, node).
containerFn(i) ==
  /\ wpc[i] = "containerFn"
  /\ cbCalls' = [cbCalls EXCEPT ![i] = @ + 1]
  /\ \/ wpc' = [wpc EXCEPT ![i] = "Start"] /\ werr' = werr
     \/ Returns(i, Msg("containerFn", "", 0))
  /\ UNCHANGED <<procVars, stage, elements, saw, pulls, keyCt, recv, doneCount, allErr,
                 workRet, engineVars, histVars>>

\* startContainers: c.Start() of a tx-manager unit.  TesseraTxManager.Start returns
\* nil and does nothing else.
Start(i) ==
  /\ wpc[i] = "Start"
  /\ stage = "unit"
  /\ Returns(i, Nil)
  /\ UNCHANGED <<procVars, stage, elements, cbCalls, saw, pulls, keyCt, recv, doneCount,
                 allErr, workRet, engineVars, histVars>>

\* The caller stops a unit it has started.  TesseraTxManager.Stop returns nil and
\* does nothing else.
Stop(i) ==
  /\ stage = "unit"
  /\ wpc[i] = "exit"
  /\ werr[i] = Nil
  /\ wpc' = [wpc EXCEPT ![i] = "stopped"]
  /\ UNCHANGED <<procVars, stage, elements, werr, cbCalls, saw, pulls, keyCt, recv,
                 doneCount, allErr, workRet, engineVars, histVars>>

\* ------------------------------------------------------------ the older builder
\* startContainers of builder.go: idx, the index the loop over qb.Nodes is at.
LoopIdx == Cardinality({i \in Indices : wpc[i] # "pending"})

\* The error the older startContainers returns: "%d/%d ready\n%s".
OldResult(errs, ready, total) ==
  IF Len(errs) > 0
  THEN [title |-> "%d/%d ready", done |-> ready, total |-> total, msgs |-> errs]
  ELSE Nil

\* The older startContainers is called: the two channels are made and the loop over
\* qb.Nodes begins, or, without nodes, the loop that collects.
OldStartContainers ==
  /\ mpc = "oldStartContainers"
  /\ stage' = "old"
  /\ elements' = quorumNodesToGeneric(nodes)
  /\ wpc' = [i \in 0 .. (nodes - 1) |-> "pending"]
  /\ werr' = [i \in 0 .. (nodes - 1) |-> Nil]
  /\ cbCalls' = [i \in 0 .. (nodes - 1) |-> 0]
  /\ saw' = [i \in 0 .. (nodes - 1) |-> ""]
  /\ pulls' = [i \in 0 .. (nodes - 1) |-> 0]
  /\ keyCt' = [i \in 0 .. (nodes - 1) |-> 0]
  /\ recv' = [i \in 0 .. (nodes - 1) |-> 0]
  /\ doneCount' = 0
  /\ allErr' = <<>>
  /\ workRet' = Running
  /\ mpc' = IF nodes = 0 THEN "oldCollect" ELSE "oldLoop"
  /\ UNCHANGED <<nodes, tmpDir, dockerNetwork, pullMux, ret, engineVars, histVars>>

\* The loop body at index idx: containerFn(idx, node) is called in the caller's own
\* goroutine.  With a unit it launches the goroutine that starts it and goes on;
\* with an error it sends on errChan, which is unbuffered and has no receiver before
\* the loop is over: the caller stays in that send.
OldContainerFn ==
  /\ mpc = "oldLoop"
  /\ LoopIdx < nodes
  /\ cbCalls' = [cbCalls EXCEPT ![LoopIdx] = @ + 1]
  /\ \/ /\ wpc' = [wpc EXCEPT ![LoopIdx] = "oldStart"]
        /\ werr' = werr
        /\ mpc' = IF LoopIdx + 1 = nodes THEN "oldCollect" ELSE "oldLoop"
     \/ /\ wpc' = [wpc EXCEPT ![LoopIdx] = "failed"]
        /\ werr' = [werr EXCEPT ![LoopIdx] = Msg("%d: %s", "", LoopIdx)]
        /\ mpc' = "oldSend"
  /\ UNCHANGED <<nodes, tmpDir, dockerNetwork, pullMux, ret, stage, elements, saw, pulls,
                 keyCt, recv, doneCount, allErr, workRet, engineVars, histVars>>

\* The goroutine of unit i: _c.Start(), then the send of its result.  Its error
\* message reads idx, the loop's own variable, which the loop may have moved on.
OldStart(i) ==
  /\ wpc[i] = "oldStart"
  /\ \/ wpc' = [wpc EXCEPT ![i] = "readyChan"] /\ werr' = werr
     \/ \E k \in i .. (nodes - 1) :
          /\ wpc' = [wpc EXCEPT ![i] = "errChan"]
          /\ werr' = [werr EXCEPT ![i] = Msg("%d: %s", "", k)]
  /\ UNCHANGED <<procVars, stage, elements, cbCalls, saw, pulls, keyCt, recv, doneCount,
                 allErr, workRet, engineVars, histVars>>

\* The collecting loop after one receive: len(allErr)+readyCount >= len(qb.Nodes).
OldCollected(errs, ready) ==
  IF Len(errs) + ready >= nodes
  THEN /\ workRet' = OldResult(errs, ready, nodes)
       /\ mpc' = "idle"
       /\ ret' = [call |-> "startContainers", err |-> OldResult(errs, ready, nodes)]
  ELSE UNCHANGED <<workRet, mpc, ret>>

\* case <-readyChan
OldRecvReady(i) ==
  /\ mpc = "oldCollect"
  /\ wpc[i] = "readyChan"
  /\ wpc' = [wpc EXCEPT ![i] = "exit"]
  /\ recv' = [recv EXCEPT ![i] = @ + 1]
  /\ doneCount' = doneCount + 1
  /\ allErr' = allErr
  /\ OldCollected(allErr, doneCount + 1)
  /\ UNCHANGED <<nodes, tmpDir, dockerNetwork, pullMux, stage, elements, werr, cbCalls,
                 saw, pulls, keyCt, engineVars, histVars>>

\* case err := <-errChan
OldRecvErr(i) ==
  /\ mpc = "oldCollect"
  /\ wpc[i] = "errChan"
  /\ wpc' = [wpc EXCEPT ![i] = "exit"]
  /\ recv' = [recv EXCEPT ![i] = @ + 1]
  /\ doneCount' = doneCount
  /\ allErr' = Append(allErr, werr[i])
  /\ OldCollected(Append(allErr, werr[i]), doneCount)
  /\ UNCHANGED <<nodes, tmpDir, dockerNetwork, pullMux, stage, elements, werr, cbCalls,
                 saw, pulls, keyCt, engineVars, histVars>>

\* ------------------------------------------------------------ Destroy
\* containersToGeneric / networksToGeneric of what the engine listed.
containersToGeneric(ids) == SortedIds(ids)
networksToGeneric(ids) == SortedIds(ids)

\* The containers Destroy asks the engine for: those with the label of commonLabels.
ContainerTargets == ListByLabel(containers, commonLabels)

\* Mutant of NetworkTargets: Destroy removes the network its own Build() created.
NetworkTargetsOwn == IF dockerNetwork = 0 THEN {} ELSE {dockerNetwork}

\* The networks Destroy asks the engine for: those with the label of commonLabels.
NetworkTargets == ListByLabel(networks, commonLabels)

\* Destroy(): os.RemoveAll(qb.tmpDir), ContainerList with the label filter, and
\* doWorkInParallel over the containers listed.
Destroy ==
  /\ mpc = "idle"
  /\ destroys < MaxDestroys
  /\ destroys' = destroys + 1
  /\ \/ /\ dlog' = [NoLog EXCEPT !.afterQuiet = quiet, !.before = dlog.attempted,
                                 !.calledListC = TRUE, !.listErr = TRUE]
        /\ mpc' = "idle"
        /\ ret' = DestroyRet(Msg("ContainerList", "", 0))
        /\ quiet' = (DestroyRet(Msg("ContainerList", "", 0)).err = Nil)
        /\ UNCHANGED <<workVars, failed, unreported>>
     \/ /\ dlog' = [NoLog EXCEPT !.afterQuiet = quiet, !.before = dlog.attempted,
                                 !.calledListC = TRUE, !.didListC = TRUE,
                                 !.snapC = containers, !.listedC = ContainerTargets]
        /\ doWorkInParallel("rmContainers", containersToGeneric(ContainerTargets))
  /\ UNCHANGED <<nodes, tmpDir, dockerNetwork, pullMux, engineVars, builds, entered,
                 absentAtBuild, identities>>

\* The callback of the container pass: ContainerRemove(c.ID, Force).  The engine
\* answers "no such container" for one that is gone, and else removes it or fails.
ContainerRemove(i) ==
  /\ wpc[i] = "ContainerRemove"
  /\ cbCalls' = [cbCalls EXCEPT ![i] = @ + 1]
  /\ IF El(i) \notin {c.id : c \in containers}
     THEN /\ Returns(i, Msg("No such container", "", El(i)))
          /\ dlog' = [dlog EXCEPT !.attempted = @ \cup {El(i)}, !.notFound = TRUE]
          /\ containers' = containers
     ELSE \/ /\ Returns(i, Nil)
             /\ containers' = {c \in containers : c.id # El(i)}
             /\ dlog' = [dlog EXCEPT !.attempted = @ \cup {El(i)}]
          \/ /\ Returns(i, Msg("ContainerRemove", "", El(i)))
             /\ containers' = containers
             /\ dlog' = [dlog EXCEPT !.attempted = @ \cup {El(i)}, !.hardErr = TRUE]
  /\ UNCHANGED <<procVars, stage, elements, saw, pulls, keyCt, recv, doneCount, allErr,
                 workRet, images, networks, nextId, pullCalls, builds, destroys, entered,
                 failed, absentAtBuild, identities, unreported, quiet>>

\* Destroy(): NetworkList with the label filter, and doWorkInParallel over the
\* networks listed.
NetworkList ==
  /\ mpc = "NetworkList"
  /\ \/ /\ dlog' = [dlog EXCEPT !.calledListN = TRUE, !.listErr = TRUE]
        /\ mpc' = "idle"
        /\ ret' = DestroyRet(Msg("NetworkList", "", 0))
        /\ quiet' = (DestroyRet(Msg("NetworkList", "", 0)).err = Nil)
        /\ UNCHANGED <<workVars, failed, unreported>>
     \/ /\ dlog' = [dlog EXCEPT !.calledListN = TRUE, !.didListN = TRUE,
                                !.snapN = networks, !.listedN = NetworkTargets]
        /\ doWorkInParallel("rmNetworks", networksToGeneric(NetworkTargets))
  /\ UNCHANGED <<nodes, tmpDir, dockerNetwork, pullMux, engineVars, builds, destroys,
                 entered, absentAtBuild, identities>>

\* The callback of the network pass: NetworkRemove(c.ID).
NetworkRemove(i) ==
  /\ wpc[i] = "NetworkRemove"
  /\ cbCalls' = [cbCalls EXCEPT ![i] = @ + 1]
  /\ IF El(i) \notin {n.id : n \in networks}
     THEN /\ Returns(i, Msg("No such network", "", El(i)))
          /\ dlog' = [dlog EXCEPT !.attempted = @ \cup {El(i)}, !.notFound = TRUE]
          /\ networks' = networks
     ELSE \/ /\ Returns(i, Nil)
             /\ networks' = {n \in networks : n.id # El(i)}
             /\ dlog' = [dlog EXCEPT !.attempted = @ \cup {El(i)}]
          \/ /\ Returns(i, Msg("NetworkRemove", "", El(i)))
             /\ networks' = networks
             /\ dlog' = [dlog EXCEPT !.attempted = @ \cup {El(i)}, !.hardErr = TRUE]
  /\ UNCHANGED <<procVars, stage, elements, saw, pulls, keyCt, recv, doneCount, allErr,
                 workRet, images, containers, nextId, pullCalls, builds, destroys,
                 entered, failed, absentAtBuild, identities, unreported, quiet>>

\* ------------------------------------------------------------ the environment
\* Somebody else (another Destroy, an operator) removes a labeled container.
ExternalRemoveContainer ==
  /\ \E c \in containers :
       /\ c.label = commonLabels
       /\ containers' = containers \ {c}
  /\ quiet' = FALSE
  /\ UNCHANGED <<procVars, workVars, images, networks, nextId, pullCalls, builds,
                 destroys, entered, failed, absentAtBuild, identities, unreported, dlog>>

\* Somebody else removes a labeled network.
ExternalRemoveNetwork ==
  /\ \E n \in networks :
       /\ n.label = commonLabels
       /\ networks' = networks \ {n}
  /\ quiet' = FALSE
  /\ UNCHANGED <<procVars, workVars, images, containers, nextId, pullCalls, builds,
                 destroys, entered, failed, absentAtBuild, identities, unreported, dlog>>

\* A builder before doWorkInParallel was ever called.
NoWorkYet ==
  /\ stage = ""
  /\ elements = <<>>
  /\ wpc = NoWork
  /\ werr = NoWork
  /\ cbCalls = NoWork
  /\ saw = NoWork
  /\ pulls = NoWork
  /\ keyCt = NoWork
  /\ recv = NoWork
  /\ doneCount = 0
  /\ allErr = <<>>
  /\ workRet = Running

\* The builder process ends (a crash included) and a new one is started from the
\* same configuration: NewQuorumBuilder sets the labels and a fresh mutex, and
\* nothing else.  The engine keeps what it holds.
NewQuorumBuilder ==
  /\ \/ mpc # "idle"
     \/ tmpDir # ""
     \/ dockerNetwork # 0
     \/ ret # NoRet
     \/ elements # <<>>
  /\ mpc' = "idle"
  /\ tmpDir' = ""
  /\ dockerNetwork' = 0
  /\ pullMux' = {}
  /\ ret' = NoRet
  /\ stage' = ""
  /\ elements' = <<>>
  /\ wpc' = NoWork
  /\ werr' = NoWork
  /\ cbCalls' = NoWork
  /\ saw' = NoWork
  /\ pulls' = NoWork
  /\ keyCt' = NoWork
  /\ recv' = NoWork
  /\ doneCount' = 0
  /\ allErr' = <<>>
  /\ workRet' = Running
  /\ UNCHANGED <<nodes, engineVars, histVars>>

\* ------------------------------------------------------------ specifications
LabeledNetworkId == MaxContainers + 2

\* An engine holding k containers and n networks with the build's label, and one
\* container and one network of somebody else.
EngineWith(k, n) ==
  /\ containers = {[id |-> c, label |-> commonLabels] : c \in 1 .. k}
                  \cup {[id |-> MaxContainers + 1, label |-> OtherLabel]}
  /\ networks = {[id |-> LabeledNetworkId, label |-> commonLabels] : x \in 1 .. n}
                \cup {[id |-> MaxContainers + 3, label |-> OtherLabel]}
  /\ nextId = MaxContainers + 4
  /\ pullCalls = [im \in Images |-> 0]

NoHistory ==
  /\ builds = 0
  /\ destroys = 0
  /\ entered = {}
  /\ failed = ""
  /\ absentAtBuild = {}
  /\ unreported = {}
  /\ identities = 0
  /\ dlog = NoLog
  /\ quiet = FALSE

\* One Build() by a new builder of 0..MaxNodes nodes, on an engine that holds nothing
\* of this build.  No unit of Build ever sends on doneChan (GenerateKeys returns only
\* errors), so the collector's doneChan case is no step of this specification.
Init ==
  /\ mpc = "idle"
  /\ tmpDir = ""
  /\ dockerNetwork = 0
  /\ pullMux = {}
  /\ ret = NoRet
  /\ NoWorkYet
  /\ NoHistory
  /\ nodes \in 0 .. MaxNodes
  /\ images \in [Images -> {"absent", "present"}]
  /\ EngineWith(0, 0)

Next ==
  \/ Build
  \/ buildDockerNetwork
  \/ startTxManagers
  \/ startQuorums
  \/ WritePermissionedNodes
  \/ NewGenesis
  \/ \E i \in Indices : pullImage(i)
  \/ \E i \in Indices : ImagePull(i)
  \/ \E im \in Images : EnginePullDone(im)
  \/ \E i \in Indices : GenerateKeys(i)
  \/ \E i \in Indices : ContainerStart(i)
  \/ \E i \in Indices : ContainerWaitErr(i)
  \/ \E i \in Indices : ContainerWaitExit(i)
  \/ \E i \in Indices : RecvErr(i)

Spec == Init /\ [][Next]_vars

\* Destroy() on an engine that holds up to MaxContainers containers and up to one
\* network of this build, called by a new builder or by one whose Build() has
\* returned (qb.tmpDir set, qb.dockerNetwork set once the network was created).
InitDestroy ==
  /\ mpc = "idle"
  /\ pullMux = {}
  /\ ret = NoRet
  /\ NoWorkYet
  /\ NoHistory
  /\ nodes = 0
  /\ images = [im \in Images |-> "absent"]
  /\ \E k \in 0 .. MaxContainers, n \in 0 .. 1 : EngineWith(k, n)
  /\ \/ tmpDir = "" /\ dockerNetwork = 0
     \/ tmpDir = "tmp" /\ dockerNetwork \in {0, LabeledNetworkId}

NextDestroy ==
  \/ Destroy
  \/ \E i \in Indices : ContainerRemove(i)
  \/ NetworkList
  \/ \E i \in Indices : NetworkRemove(i)
  \/ \E i \in Indices : RecvDone(i)
  \/ \E i \in Indices : RecvErr(i)
  \/ ExternalRemoveContainer
  \/ ExternalRemoveNetwork
  \/ NewQuorumBuilder

SpecDestroy == InitDestroy /\ [][NextDestroy]_vars

\* startQuorums() called as Build() calls it, on a builder of 0..MaxNodes nodes with
\* its temp dir and its network made, startTxManagers() having returned nil.
InitLedger ==
  /\ mpc = "startQuorums"
  /\ tmpDir = "tmp"
  /\ dockerNetwork = MaxContainers + 4
  /\ pullMux = {}
  /\ ret = NoRet
  /\ NoWorkYet
  /\ nodes \in 0 .. MaxNodes
  /\ images \in [Images -> {"absent", "present"}]
  /\ containers = {[id |-> MaxContainers + 1, label |-> OtherLabel]}
  /\ networks = NewDockerNetwork({[id |-> MaxContainers + 3, label |-> OtherLabel]},
                                 MaxContainers + 4, commonLabels)
  /\ nextId = MaxContainers + 5
  /\ pullCalls = [im \in Images |-> 0]
  /\ builds = 1
  /\ destroys = 0
  /\ entered = {"TempDir", "network", "txLease"}
  /\ failed = ""
  /\ absentAtBuild = {im \in Images : images[im] = "absent"}
  /\ unreported = {}
  /\ identities = 0
  /\ dlog = NoLog
  /\ quiet = FALSE

NextLedger ==
  \/ startQuorums
  \/ WritePermissionedNodes
  \/ NewGenesis
  \/ \E i \in Indices : pullImage(i)
  \/ \E i \in Indices : ImagePull(i)
  \/ \E im \in Images : EnginePullDone(im)
  \/ \E i \in Indices : NewQuorum(i)
  \/ \E i \in Indices : QuorumStart(i)
  \/ \E i \in Indices : RecvDone(i)
  \/ \E i \in Indices : RecvErr(i)

SpecLedger == InitLedger /\ [][NextLedger]_vars

\* startContainers() over tx-manager units made as values, on a builder of
\* 0..MaxUnits nodes whose network is made; the caller stops the units it started.
InitUnits ==
  /\ mpc = "startContainers"
  /\ tmpDir = "tmp"
  /\ dockerNetwork = MaxContainers + 4
  /\ pullMux = {}
  /\ ret = NoRet
  /\ NoWorkYet
  /\ NoHistory
  /\ nodes \in 0 .. MaxUnits
  /\ images = [im \in Images |-> "present"]
  /\ containers = {[id |-> MaxContainers + 1, label |-> OtherLabel]}
  /\ networks = NewDockerNetwork({[id |-> MaxContainers + 3, label |-> OtherLabel]},
                                 MaxContainers + 4, commonLabels)
  /\ nextId = MaxContainers + 5
  /\ pullCalls = [im \in Images |-> 0]

NextUnits ==
  \/ StartUnits
  \/ \E i \in Indices : containerFn(i)
  \/ \E i \in Indices : Start(i)
  \/ \E i \in Indices : Stop(i)
  \/ \E i \in Indices : RecvDone(i)
  \/ \E i \in Indices : RecvErr(i)

SpecUnits == InitUnits /\ [][NextUnits]_vars

\* The older builder's startContainers(containerFn) on a builder of 0..MaxUnits
\* nodes, containerFn and each unit's Start() failing or not.
InitOld ==
  /\ mpc = "oldStartContainers"
  /\ tmpDir = ""
  /\ dockerNetwork = MaxContainers + 4
  /\ pullMux = {}
  /\ ret = NoRet
  /\ NoWorkYet
  /\ NoHistory
  /\ nodes \in 0 .. MaxUnits
  /\ images = [im \in Images |-> "present"]
  /\ containers = {[id |-> MaxContainers + 1, label |-> OtherLabel]}
  /\ networks = {[id |-> MaxContainers + 3, label |-> OtherLabel],
                 [id |-> MaxContainers + 4, label |-> NoLabel]}
  /\ nextId = MaxContainers + 5
  /\ pullCalls = [im \in Images |-> 0]

NextOld ==
  \/ OldStartContainers
  \/ OldContainerFn
  \/ \E i \in Indices : OldStart(i)
  \/ \E i \in Indices : OldRecvReady(i)
  \/ \E i \in Indices : OldRecvErr(i)

SpecOld == InitOld /\ [][NextOld]_vars

\* One Build() and the calls of Destroy() its caller makes before it or once it has
\* returned, on an engine that may hold a labeled container of an earlier run.
InitBuildDestroy ==
  /\ mpc = "idle"
  /\ tmpDir = ""
  /\ dockerNetwork = 0
  /\ pullMux = {}
  /\ ret = NoRet
  /\ NoWorkYet
  /\ NoHistory
  /\ nodes \in 0 .. MaxNodes
  /\ images \in [Images -> {"absent", "present"}]
  /\ \E k \in 0 .. 1 : EngineWith(k, 0)

NextBuildDestroy ==
  \/ Next
  \/ Destroy
  \/ \E i \in Indices : ContainerRemove(i)
  \/ NetworkList
  \/ \E i \in Indices : NetworkRemove(i)
  \/ \E i \in Indices : RecvDone(i)

SpecBuildDestroy == InitBuildDestroy /\ [][NextBuildDestroy]_vars

\* ------------------------------------------------------------ the claims
BuildReturned == builds = 1 /\ mpc = "idle" /\ ret.call = "Build"
DestroyReturned == destroys > 0 /\ mpc = "idle" /\ ret.call = "Destroy"
WorkReturned == workRet # Running
Erred == {i \in Indices : werr[i] # Nil}

\* Build() has gone past the collection of the tx-manager stage: it has returned, or
\* it is in startQuorums.
TxStageLeft == "txLease" \in entered /\ ~(mpc = "collect" /\ stage = "tx")

LedgerSteps == {"quorumLease", "NewNode", "WritePermissionedNodes", "NewGenesis"}

\* startQuorums has been called: Build() is in it, has executed one of its steps, or
\* has launched the ledger-node units.
LedgerStageBegun ==
  \/ mpc \in {"startQuorums", "WritePermissionedNodes", "NewGenesis"}
  \/ entered \cap LedgerSteps # {}
  \/ stage = "quorum"

TxUnitErred == stage = "tx" /\ Erred # {}

\* C1: in Build(), for every node count and every interleaving of the goroutines, the
\* tx-manager stage is left (to return, or to enter startQuorums, where the
\* ledger-node units are constructed and started) only when every tx-manager unit
\* has reported its outcome to the collector.
C1_TxStageResolvesFirst == (TxStageLeft \/ LedgerStageBegun) => unreported = {}

\* Build() has left the tx-manager stage of two or more nodes, all of them reported.
C1_Witness ==
  /\ nodes >= 2
  /\ TxStageLeft
  /\ unreported = {}
  /\ Len(allErr) = nodes

\* C2: when a stage of Build() fails, no later stage is entered and Build(), when it
\* returns, returns an error: after a failed temp-dir creation no network is created,
\* after a failed network creation no unit is launched, and once a tx-manager unit
\* has erred startQuorums is never called (no address leased for the ledger nodes,
\* no identity, peers file or genesis made, no ledger-node unit launched).
C2_FailedStageAborts ==
  /\ failed = "TempDir" => entered = {"TempDir"} /\ dockerNetwork = 0
  /\ failed = "network" => entered = {"TempDir", "network"} /\ Indices = {}
  /\ TxUnitErred => ~LedgerStageBegun
  /\ failed # "" => BuildReturned /\ ret.err # Nil
  /\ (BuildReturned /\ TxUnitErred) => ret.err # Nil /\ failed = "tx"

\* Build() of two or more nodes has returned the error of its tx-manager stage.
C2_Witness ==
  /\ nodes >= 2
  /\ BuildReturned
  /\ failed = "tx"
  /\ ret.err # Nil
  /\ ~LedgerStageBegun

\* C3: doWorkInParallel invokes the callback once for each index and never twice,
\* and when it returns, whatever the units' outcomes, every unit's callback has run,
\* the collector has received exactly one result from every unit, and no goroutine
\* is left waiting to send.
C3_EveryUnitCollectedOnce ==
  /\ \A i \in Indices : cbCalls[i] <= 1 /\ recv[i] <= 1
  /\ WorkReturned =>
       /\ \A i \in Indices : cbCalls[i] = 1 /\ recv[i] = 1 /\ wpc[i] = "exit"
       /\ Len(allErr) + doneCount = Len(elements)

\* doWorkInParallel has returned from two or more units of which one failed and one
\* did not.
C3_Witness ==
  /\ WorkReturned
  /\ Len(elements) >= 2
  /\ \E i, j \in Indices : werr[i] # Nil /\ werr[j] = Nil /\ recv[i] = 1 /\ recv[j] = 1

\* C5: when doWorkInParallel returns, for every number of items and every order of
\* completion, the collected failures are as many as the callbacks that returned an
\* error, the successes are the rest, and it returns nil exactly when no callback
\* erred.
C5_CountsMatchOutcomes ==
  WorkReturned =>
    /\ Len(allErr) = Cardinality(Erred)
    /\ doneCount = Len(elements) - Cardinality(Erred)
    /\ (workRet = Nil) <=> (Erred = {})

\* doWorkInParallel has returned an error with one failure and one success counted,
\* the failing unit being the last index.
C5_Witness ==
  /\ WorkReturned
  /\ Len(elements) = 2
  /\ werr[1] # Nil
  /\ werr[0] = Nil
  /\ doneCount = 1
  /\ workRet # Nil

\* An error message names index i.
NamesIndex(m, i) == "idx" \in DOMAIN m /\ m.idx = i

\* C4: the aggregate error Build() returns for a failed tx-manager stage names the
\* index of every failing unit.
C4_AggregateNamesFailingIndices ==
  (BuildReturned /\ failed = "tx") =>
    \A i \in Erred : \E k \in 1 .. Len(ret.err.msgs) : NamesIndex(ret.err.msgs[k], i)

\* C6: a Destroy() that has returned has run the network pass: it has called
\* NetworkList.
C6_NetworkPassAlwaysRuns == DestroyReturned => dlog.calledListN

\* C7: a Destroy() that met no failure other than the engine's "not found" answers
\* returns nil.
C7_AbsentIsNoError ==
  (DestroyReturned /\ ~dlog.listErr /\ ~dlog.hardErr) => ret.err = Nil

\* C8: a Destroy() called after one that returned nil, the engine's containers and
\* networks unchanged in between, is shown no labeled container and no labeled
\* network by the lists it gets, asks for no removal, and returns nil when its two
\* lists are answered.
C8_SecondDestroyFindsNothing ==
  dlog.afterQuiet =>
    /\ dlog.listedC = {}
    /\ dlog.listedN = {}
    /\ dlog.attempted = {}
    /\ (DestroyReturned /\ ~dlog.listErr) => ret.err = Nil

\* The second Destroy() in a row, after a first that removed two containers and a
\* network, has listed both kinds, found nothing and returned nil.
C8_Witness ==
  /\ dlog.afterQuiet
  /\ Cardinality(dlog.before) = 3
  /\ destroys = 2
  /\ DestroyReturned
  /\ dlog.didListC
  /\ dlog.didListN
  /\ ret.err = Nil

\* C9: whatever the builder's own state (a new builder, or one that ran Build()),
\* the containers and networks Destroy() is given to remove are all and only those
\* the engine holds with the build's label when it lists them, and the removals it
\* asks for are those of the listed ones, all of them once a pass is done.
C9_TargetsFromLabelAndEngine ==
  /\ dlog.didListC => dlog.listedC = {c.id : c \in {x \in dlog.snapC : x.label = Name}}
  /\ dlog.didListN => dlog.listedN = {n.id : n \in {x \in dlog.snapN : x.label = Name}}
  /\ dlog.attempted \subseteq (dlog.listedC \cup dlog.listedN)
  /\ (WorkReturned /\ stage = "rmContainers") => dlog.listedC \subseteq dlog.attempted
  /\ (WorkReturned /\ stage = "rmNetworks") => dlog.listedN \subseteq dlog.attempted

\* A builder that never ran Build() has listed the labeled network, and not the
\* other one, and both of two labeled containers, and not the other one.
C9_Witness ==
  /\ tmpDir = ""
  /\ dockerNetwork = 0
  /\ dlog.didListN
  /\ dlog.listedN # {}
  /\ Cardinality(dlog.snapN) > Cardinality(dlog.listedN)
  /\ Cardinality(dlog.listedC) = 2
  /\ Cardinality(dlog.snapC) > Cardinality(dlog.listedC)

\* C10 as stated: an image reference absent when Build() is called is pulled at most
\* once.
C10_AtMostOnePull == \A im \in absentAtBuild : pullCalls[im] <= 1

\* C10 as amended: the units list and pull one at a time, under the builder's lock;
\* a unit calls ImagePull at most once, and only when its own ImageList failed or
\* showed no image; the engine receives no other pull call.
C10_PullOnlyWhenNotListed ==
  /\ Cardinality({i \in Indices : wpc[i] = "ImagePull"}) <= 1
  /\ \A i \in Indices : wpc[i] = "ImagePull" => pullMux = {i}
  /\ \A i \in Indices :
       /\ pulls[i] <= 1
       /\ (pulls[i] = 1 \/ wpc[i] = "ImagePull") => saw[i] \in {"empty", "err"}
  /\ stage \in {"tx", "quorum"} =>
       pullCalls[ImageOf(stage)] = Cardinality({i \in Indices : pulls[i] = 1})

\* Of two units asking for an image that was absent, one has pulled it and the
\* other, finding it listed, has not.
C10_Witness ==
  /\ TxImage \in absentAtBuild
  /\ \E i, j \in Indices :
       /\ pulls[i] = 1
       /\ saw[j] = "found"
       /\ pulls[j] = 0
       /\ wpc[j] # "pullImage"

\* The units inside pullImage's list-then-pull sequence.
InPullSequence == {i \in Indices : wpc[i] = "ImagePull"}

\* The units constructing their container, after pullImage has returned.
Constructing ==
  {i \in Indices : wpc[i] \in {"GenerateKeys", "ContainerStart", "ContainerWait"}}

PullFailed(i) == werr[i] # Nil /\ werr[i].text = "pullImage: %s - %s"

\* C11: at most one unit at a time is inside the list-then-pull sequence of
\* pullImage, and it is the holder of qb.pullMux; the lock is held by nobody else: a
\* unit that has left pullImage, its pull failed or not, has released it, so that a
\* waiting unit can always enter once the holder's pull call has returned.
C11_PullSequenceExclusive ==
  /\ Cardinality(InPullSequence) <= 1
  /\ pullMux = InPullSequence
  /\ \A i \in Indices : PullFailed(i) => i \notin pullMux

\* One unit's pull has failed and its error is returned; another unit has since
\* taken the lock and is about to pull.
C11_Witness ==
  \E i, j \in Indices :
    /\ PullFailed(i)
    /\ pullMux = {j}
    /\ wpc[j] = "ImagePull"

\* Two units are constructing their containers at the same time.
ConstructionOverlaps == Cardinality(Constructing) >= 2

ContainerIds == {c.id : c \in containers}

\* Unit i created a key-generation container and the engine no longer holds it.
KeyContainerGone(i) == keyCt[i] # 0 /\ keyCt[i] \notin ContainerIds

WaitFailed(i) ==
  werr[i] # Nil /\ werr[i].text = "GenerateKeys: container %s is not running - %s"

BuildFailed == BuildReturned /\ ret.err # Nil

\* C12 as stated: when Build() has failed no remove call was issued: every container
\* created during the Build() is still in the engine.
C12_NothingRemovedByFailedBuild ==
  BuildFailed => \A i \in Indices : ~KeyContainerGone(i)

\* C12 as amended: when Build() has failed, the network it created is still in the
\* engine with its label, the containers and networks of others are untouched, and
\* the only containers gone are key-generation containers of units whose wait
\* failed, removed by GenerateKeys itself.
C12_FailedBuildLeavesNetwork ==
  BuildFailed =>
    /\ dockerNetwork # 0 => [id |-> dockerNetwork, label |-> commonLabels] \in networks
    /\ [id |-> MaxContainers + 1, label |-> OtherLabel] \in containers
    /\ [id |-> MaxContainers + 3, label |-> OtherLabel] \in networks
    /\ \A i \in Indices : KeyContainerGone(i) => WaitFailed(i)

\* Build() has failed in its tx-manager stage: the network is there, one unit's
\* key-generation container is gone and another's, which failed to start, is not.
C12_Witness ==
  /\ BuildFailed
  /\ failed = "tx"
  /\ [id |-> dockerNetwork, label |-> commonLabels] \in networks
  /\ \E i, j \in Indices :
       /\ KeyContainerGone(i)
       /\ keyCt[j] \in ContainerIds
       /\ werr[j] # Nil

\* Build() has been called, has not returned, and nothing has failed so far.
BuildGoingWell == builds = 1 /\ ~BuildReturned /\ failed = "" /\ Erred = {}

\* C13: a Build() of N nodes in which no call fails goes on to construct and start
\* every tx-manager unit and every ledger-node unit and returns success: short of
\* its return it is never in a state from which no goroutine can take a step.
C13_FaultFreeBuildProceeds == BuildGoingWell => ENABLED Next

\* Unit i's key-generation container has exited, the wait reporting no error, and
\* GenerateKeys is still in its select, which nothing will ever wake.
StuckInSelect(i) == wpc[i] = "blocked"

\* C14: GenerateKeys, once its container was created and started and has exited
\* with the wait reporting no error, stops blocking and goes on to read the keys, to
\* remove the container and to return: no unit is left in the select after that exit.
C14_CleanExitUnblocksGenerateKeys == \A i \in Indices : ~StuckInSelect(i)

\* A container or network the engine created during Build(): the ids it assigned
\* after those it held at the start.
CreatedByBuild(r) == r.id >= MaxContainers + 4

\* The last call to return is a Destroy() that came after the Build().
DestroyedAfterBuild == builds = 1 /\ DestroyReturned /\ "TempDir" \in entered

\* C15: every container and network created during a Build() carries the build's
\* label, and after a Build(), successful or failed, followed by a Destroy() that
\* returns nil, none of them is left in the engine.
C15_DestroyRemovesAllOfBuild ==
  (DestroyedAfterBuild /\ ret.err = Nil) =>
    /\ \A c \in containers : ~CreatedByBuild(c)
    /\ \A n \in networks : ~CreatedByBuild(n)

\* startQuorums has launched the ledger-node units.
LedgerUnitsLaunched == stage = "quorum"

\* C16: in the ledger-node stage the units are launched only after an identity was
\* made for every one of the N nodes, the peers file written and the genesis made;
\* each of these steps is taken once, in that order; and when the address lease, an
\* identity, the peers file or the genesis fails, that error is what is returned and
\* no ledger-node unit is launched.
C16_MaterialBeforeLedgerUnits ==
  /\ LedgerUnitsLaunched =>
       /\ identities = nodes
       /\ {"quorumLease", "WritePermissionedNodes", "NewGenesis"} \subseteq entered
  /\ mpc = "startQuorums" => entered \cap LedgerSteps = {}
  /\ mpc = "WritePermissionedNodes" =>
       identities = nodes /\ entered \cap {"WritePermissionedNodes", "NewGenesis"} = {}
  /\ mpc = "NewGenesis" =>
       "WritePermissionedNodes" \in entered /\ "NewGenesis" \notin entered
  /\ failed \in LedgerSteps =>
       /\ ~LedgerUnitsLaunched
       /\ BuildReturned
       /\ ret.err # Nil
       /\ ret.err.text = (IF failed = "quorumLease" THEN "GetFreeIPAddrs" ELSE failed)

\* The ledger-node units of two nodes are launched, one of them past its image pull,
\* with two identities, the peers file and the genesis made.
C16_Witness ==
  /\ nodes = 2
  /\ LedgerUnitsLaunched
  /\ identities = 2
  /\ "NewGenesis" \in entered
  /\ \E i \in Indices : wpc[i] = "NewQuorum"

\* doWorkInParallel was called with no element.
CalledWithNothing == stage # "" /\ elements = <<>>

\* C17: doWorkInParallel called with no element has returned nil at once: the
\* collector never waits, no goroutine exists and the callback was not invoked; and
\* a Destroy() that was listed no container and no network has asked for no removal.
C17_NoItemsNoWorkers ==
  /\ CalledWithNothing =>
       /\ workRet = Nil
       /\ mpc # "collect"
       /\ DOMAIN wpc = {}
       /\ DOMAIN cbCalls = {}
       /\ doneCount = 0
       /\ allErr = <<>>
  /\ (dlog.listedC = {} /\ dlog.listedN = {}) => dlog.attempted = {}

\* The first Destroy() on an engine without labeled resources has got both lists,
\* both empty, and has returned nil from its second call of doWorkInParallel.
C17_Witness ==
  /\ destroys = 1
  /\ DestroyReturned
  /\ dlog.didListC
  /\ dlog.didListN
  /\ dlog.listedC = {}
  /\ dlog.listedN = {}
  /\ stage = "rmNetworks"
  /\ CalledWithNothing
  /\ ret.err = Nil

\* The Start() of tx-manager unit i has returned nil.
StartReturnedNil(i) ==
  stage = "unit" /\ wpc[i] \in {"doneChan", "exit", "stopped"} /\ werr[i] = Nil

\* The containers the engine holds of this build: those with its label.
UnitContainers == {c \in containers : c.label = commonLabels}

\* C18: once the Start() of a tx-manager unit has returned nil, the engine holds a
\* container of the build for every such unit.
C18_StartedUnitHasContainer ==
  Cardinality(UnitContainers) >= Cardinality({i \in Indices : StartReturnedNil(i)})

\* The older startContainers has been called and has not returned.
OldRunning == stage = "old" /\ workRet = Running

\* C19: the older startContainers, for every number of nodes and whatever containerFn
\* and Start() return, goes on until it has collected one result per node and
\* returned: while it has not returned, some goroutine of it can take a step.
C19_OldStartContainersGoesOn == OldRunning => ENABLED NextOld

\* The GenerateKeys of unit i has returned, after it had created its container.
ReturnedAfterCreate(i) ==
  stage = "tx" /\ keyCt[i] # 0 /\ wpc[i] \in {"errChan", "exit"}

\* C20: when GenerateKeys has returned after its key-generation container was
\* created, whatever the path, that container is no longer in the engine.
C20_KeyContainerRemovedOnReturn ==
  \A i \in Indices : ReturnedAfterCreate(i) => keyCt[i] \notin ContainerIds

====
